---- MODULE Spec2Model ----
(***************************************************************************)
(* Crawl orchestration of spyglass: the manager loop and the worker loop   *)
(* of crates/spyglass/src/task.rs, the HTTP handlers of                    *)
(* crates/spyglass/src/api/route.rs, and the stores they share (the crawl  *)
(* queue table, the indexed_document table and the search index).          *)
(*                                                                         *)
(* manager_task owns the only mpsc::Sender of the task channel and         *)
(* worker_task owns its mpsc::Receiver, so the channel has one producer    *)
(* and one consumer.  Every `.unwrap()` on the result of a store or index  *)
(* call is a step that may panic, which ends the loop that made the call.  *)
(***************************************************************************)
EXTENDS Integers, Sequences, FiniteSets, TLC

\* ---------------------------------------------------------------- bounds
MaxRows == 2            \* rows the crawl queue table may hold
MaxDocs == 2            \* document identifiers the index may hand out
ChanCap == 1            \* capacity of the mpsc task channel
MaxLinks == 1           \* outbound links in one fetch result
DomainCrawlLimit == 1   \* user_settings.domain_crawl_limit, the per-domain limit L
InflightCrawlLimit == 1 \* the global in-flight limit G of the limits configuration

\* ------------------------------------------------------------------ URLs
\* "a1" and "b1" are urls as Url::parse serializes them, on the domains "a"
\* and "b"; "a1:80" spells "a1" with its default port, which Url::parse drops.
RawUrls == {"a1", "a1:80", "b1"}
Normalize(u) == IF u = "a1:80" THEN "a1" ELSE u
Urls == {Normalize(u) : u \in RawUrls}
\* A url that parses, on a domain outside the crawl boundaries, and a string
\* that Url::parse rejects.
DisallowedUrl == "x1"
MalformedUrl == "bad"
WellFormed(u) == u # MalformedUrl
Domain(u) ==
  IF Normalize(u) = "b1" THEN "b" ELSE IF u = DisallowedUrl THEN "x" ELSE "a"
Domains == {Domain(u) : u \in RawUrls}

NoTask == 0
NoDoc == 0
NoUrl == "none"

VARIABLES
  queue,       \* crawl_queue table: sequence of rows, the row id is the index
  docs,        \* indexed_document table: set of rows [id, url, doc_id]
  index,       \* search index: set of live entries [doc_id, url]
  nextDoc,     \* next document identifier Searcher::add_document hands out
  poisoned,    \* state.index mutex poisoned by a panic while it was held
  paused,      \* app_state["paused"] = "true"
  shutdown,    \* AppShutdown::Now has been broadcast
  chan,        \* tasks waiting in the mpsc channel
  mpc, mtask,  \* manager_task: position and the task it dequeued
  wpc, wtask,  \* worker_task: position and the task it received
  wres,        \* worker_task: the fetch result being processed
  wexisting,   \* worker_task: `existing`, the indexed_document row found
  wdoc,        \* worker_task: `doc_id` returned by add_document
  sent,        \* history: how many times each task id was sent on the channel
  fetched,     \* history: how many times each task id was fetched
  linkRows,    \* history: the rows inserted for the links of the last task
  toggles,     \* history: the number of toggle_pause requests served, mod 2
  resp,        \* add_queue: the response of the last POST /queue
  settings,    \* save_user_settings: the persisted user settings
  saveRequest, \* save_user_settings: the `settings` map of the last call
  saveResult,  \* save_user_settings: the result of the last call
  appRestarted, \* save_user_settings: the last call restarted the app
  processing_action, \* CreateLensPage: the action the add-url buttons show
  add_url_error,     \* CreateLensPage: the error shown under the url input
  pageMsgs,          \* CreateLensPage: messages sent to the component, in order
  pageTasks,         \* CreateLensPage: the futures spawned with spawn_local
  name_input,        \* CreateLensPage: the value of the display-name input
  query_debounce,    \* CreateLensPage: _query_debounce, 0 for None
  timeouts,          \* the browser's timers set by the page and not yet run
  saveMsgs,          \* CreateLensPage: Msg::Save messages sent, in order
  lens_name,         \* the display name the server holds
  elapsed,           \* ticks since the last UpdateDisplayName was handled
  burstEdits,        \* edits of the current burst
  burstSaves,        \* Msg::Save sent since the current burst began
  closedBurstSaves,  \* Msg::Save the burst before this one produced, -1 if none
  lastSave           \* display_name of the last Msg::Save sent

crawlVars == <<queue, docs, index, nextDoc, poisoned, paused, shutdown, chan,
               mpc, mtask, wpc, wtask, wres, wexisting, wdoc, sent, fetched,
               linkRows, toggles, resp>>
settingsVars == <<settings, saveRequest, saveResult, appRestarted>>
lensVars == <<processing_action, add_url_error, pageMsgs, pageTasks>>
debounceVars == <<name_input, query_debounce, timeouts, saveMsgs, lens_name,
                  elapsed, burstEdits, burstSaves, closedBurstSaves, lastSave>>
sideVars == <<settingsVars, lensVars, debounceVars>>
vars == <<crawlVars, sideVars>>

storeVars == <<queue, docs, index, nextDoc, poisoned>>
mgrVars == <<mpc, mtask>>
wrkVars == <<wpc, wtask, wres, wexisting, wdoc>>
histVars == <<sent, fetched, linkRows, toggles>>

\* ------------------------------------------------- cmd/settings.rs
\* The keys a front-end may send: a core setting, a core key that is in no
\* setting configuration, a field and an unknown field of a plugin that has
\* a configuration, a field of a plugin that has none, and a key that has no
\* '.' in it.
SettingKeys ==
  {"_.port", "_.unknown", "plug.opt", "plug.other", "ghost.opt", "nodot"}
\* The values sent: one that validates, one that does not, or no entry.
Absent == "absent"
SettingValues == {"1", "x"}
Validates(v) == v = "1"
Requests == [SettingKeys -> SettingValues \cup {Absent}]
NoRequest == [k \in SettingKeys |-> Absent]
Sent(req) == {k \in SettingKeys : req[k] # Absent}
\* user_settings: the port, and the settings of the plugin: no entry, an
\* entry without the field, or the value of the field.
DefaultSettings == [port |-> "0", plug |-> "none"]

\* The keys of a request that are validated: those with a setting
\* configuration (setting_configs.get, plugin_config.user_settings.get).
Recognised == {"_.port", "plug.opt"}
\* errors: a recognised key whose value fails validation, and a key of a
\* plugin without configuration.
ErrorsOf(req) ==
  {k \in Sent(req) : \/ k \in Recognised /\ ~Validates(req[k])
                     \/ k = "ghost.opt"}
\* The keys counted in fields_updated.
UpdatedFields(req) == {k \in Sent(req) : k \in Recognised /\ Validates(req[k])}
\* current_settings after the loop: every validated value is written to the
\* clone, and `entry(plugin).or_default()` leaves an entry for the plugin of
\* any key sent for it.
CurrentSettings(cur, req) ==
  [port |-> IF "_.port" \in UpdatedFields(req) THEN req["_.port"] ELSE cur.port,
   plug |-> IF "plug.opt" \in UpdatedFields(req) THEN req["plug.opt"]
            ELSE IF cur.plug = "none" /\ Sent(req) \cap {"plug.opt", "plug.other"} # {}
                 THEN "empty" ELSE cur.plug]

\* The request is saved although a field of it failed validation.
SaveUserSettingsPartial(req) ==
  /\ saveRequest' = req
  /\ IF UpdatedFields(req) # {}
     THEN /\ settings' = CurrentSettings(settings, req)
          /\ saveResult' = [ok |-> TRUE, errors |-> {}]
          /\ appRestarted' = TRUE
     ELSE /\ saveResult' = [ok |-> FALSE, errors |-> ErrorsOf(req)]
          /\ appRestarted' = FALSE
          /\ UNCHANGED settings
  /\ UNCHANGED <<crawlVars, lensVars, debounceVars>>

\* save_user_settings: the settings are saved only if everything is valid.
SaveUserSettings(req) ==
  /\ saveRequest' = req
  /\ IF ErrorsOf(req) = {} /\ UpdatedFields(req) # {}
     THEN /\ settings' = CurrentSettings(settings, req)
          /\ saveResult' = [ok |-> TRUE, errors |-> {}]
          /\ appRestarted' = TRUE
     ELSE /\ saveResult' = [ok |-> FALSE, errors |-> ErrorsOf(req)]
          /\ appRestarted' = FALSE
          /\ UNCHANGED settings
  /\ UNCHANGED <<crawlVars, lensVars, debounceVars>>

\* `let _ = config.save_user_settings(..)`: the write fails, its Err is
\* dropped, and the command restarts the app and returns Ok all the same.
SaveUserSettingsWriteFails(req) ==
  /\ ErrorsOf(req) = {} /\ UpdatedFields(req) # {}
  /\ saveRequest' = req
  /\ saveResult' = [ok |-> TRUE, errors |-> {}]
  /\ appRestarted' = TRUE
  /\ UNCHANGED <<settings, crawlVars, lensVars, debounceVars>>

NextSettings ==
  \/ \E req \in Requests : SaveUserSettings(req)
  \/ \E req \in Requests : SaveUserSettingsWriteFails(req)

\* ------------------------------------------------ pages/lens_edit.rs
MaxTasks == 2   \* futures of the page in flight at once
MaxTimers == 2  \* handles the browser gives its timers
DebounceTicks == 2  \* QUERY_DEBOUNCE_MS, in ticks of the clock
MaxMsgs == 4    \* messages waiting for the component

\* Msg::Processing(action), Msg::AddUrlError(msg) and the other messages the
\* futures send.
Processing_(a) == [msg |-> "Processing", arg |-> a]
AddUrlError(m) == [msg |-> "AddUrlError", arg |-> m]
ClearUrlError == [msg |-> "ClearUrlError", arg |-> "None"]
ReloadSources == [msg |-> "ReloadSources", arg |-> "None"]

\* link.send_message / send_message_batch from a future or a callback.
SendMessages(batch) ==
  /\ Len(pageMsgs) + Len(batch) <= MaxMsgs
  /\ pageMsgs' = pageMsgs \o batch
\* The futures without the one at position k.
Without(k) == [j \in 1..(Len(pageTasks) - 1) |->
                 IF j < k THEN pageTasks[j] ELSE pageTasks[j + 1]]
Spawn(kind) ==
  /\ Len(pageTasks) < MaxTasks
  /\ pageTasks' = Append(pageTasks, [kind |-> kind, pc |-> "start"])

\* The add-url buttons have an onclick only while processing_action is None.
\* Msg::AddUrl with a url that does not parse: AddUrlError, and no request.
AddUrlInvalid ==
  /\ processing_action = "None"
  /\ SendMessages(<<AddUrlError("Invalid Url")>>)
  /\ UNCHANGED <<processing_action, add_url_error, pageTasks, crawlVars, settingsVars, debounceVars>>

\* Msg::AddUrl { include_all } with a url that parses: spawn_local.
AddUrl(include_all) ==
  /\ processing_action = "None"
  /\ Spawn(IF include_all THEN "AddAllUrls" ELSE "AddSingleUrl")
  /\ UNCHANGED <<processing_action, add_url_error, pageMsgs, crawlVars, settingsVars, debounceVars>>

\* Msg::DeleteLensSource(source): spawn_local.
DeleteLensSource ==
  /\ Spawn("Delete")
  /\ UNCHANGED <<processing_action, add_url_error, pageMsgs, crawlVars, settingsVars, debounceVars>>

\* The first step of a spawned future: Msg::Processing(Some(action)); the
\* future of DeleteLensSource sends Some(Action::AddAllUrls).
TaskStart(k) ==
  /\ pageTasks[k].pc = "start"
  /\ LET kind == pageTasks[k].kind IN
       /\ SendMessages(<<Processing_(IF kind = "AddSingleUrl"
                                     THEN "AddSingleUrl" ELSE "AddAllUrls")>>)
       /\ pageTasks' = [pageTasks EXCEPT ![k].pc =
                          IF kind = "AddAllUrls" THEN "validate"
                          ELSE IF kind = "AddSingleUrl" THEN "add" ELSE "delete"]
  /\ UNCHANGED <<processing_action, add_url_error, crawlVars, settingsVars, debounceVars>>

\* api.validate_lens_source(..).await and its four outcomes.
TaskValidate(k, outcome) ==
  /\ pageTasks[k].pc = "validate"
  /\ IF outcome = "valid"
     THEN /\ pageTasks' = [pageTasks EXCEPT ![k].pc = "add"]
          /\ UNCHANGED pageMsgs
     ELSE /\ SendMessages(<<Processing_("None"),
                            AddUrlError(IF outcome = "invalid_msg"
                                        THEN "validation_msg"
                                        ELSE "Unknown error adding url")>>)
          /\ pageTasks' = Without(k)
  /\ UNCHANGED <<processing_action, add_url_error, crawlVars, settingsVars, debounceVars>>

\* add_lens_source: api.lens_add_source(..).await, Err or Ok.
TaskAdd(k, ok) ==
  /\ pageTasks[k].pc = "add"
  /\ IF ok
     THEN SendMessages(<<ClearUrlError, Processing_("None"), ClearUrlError,
                         ReloadSources>>)
     ELSE SendMessages(<<Processing_("None"), AddUrlError("api error")>>)
  /\ pageTasks' = Without(k)
  /\ UNCHANGED <<processing_action, add_url_error, crawlVars, settingsVars, debounceVars>>

\* api.delete_lens_source(..).await: Err is logged, Ok reloads the sources.
TaskDelete(k, ok) ==
  /\ pageTasks[k].pc = "delete"
  /\ IF ok THEN SendMessages(<<ReloadSources>>) ELSE UNCHANGED pageMsgs
  /\ pageTasks' = Without(k)
  /\ UNCHANGED <<processing_action, add_url_error, crawlVars, settingsVars, debounceVars>>

\* CreateLensPage::update for the message at the head of the queue; the
\* reload of the source list is left out.
PageUpdate ==
  /\ pageMsgs # <<>>
  /\ pageMsgs' = Tail(pageMsgs)
  /\ LET m == Head(pageMsgs) IN
       /\ processing_action' =
            IF m.msg = "Processing" THEN m.arg ELSE processing_action
       /\ add_url_error' =
            IF m.msg = "AddUrlError" THEN m.arg
            ELSE IF m.msg = "ClearUrlError" THEN "None" ELSE add_url_error
  /\ UNCHANGED <<pageTasks, crawlVars, settingsVars, debounceVars>>

PageTask ==
  \E k \in 1..Len(pageTasks) :
    \/ TaskStart(k)
    \/ \E o \in {"valid", "invalid_msg", "invalid", "err"} : TaskValidate(k, o)
    \/ \E ok \in BOOLEAN : TaskAdd(k, ok)
    \/ \E ok \in BOOLEAN : TaskDelete(k, ok)

NextLens ==
  \/ AddUrlInvalid
  \/ \E a \in BOOLEAN : AddUrl(a)
  \/ DeleteLensSource
  \/ PageTask
  \/ PageUpdate

\* --------------------------------- pages/lens_edit.rs: the display name
MaxEdits == 2   \* edits counted in one burst
MaxSaves == 2   \* Msg::Save counted in one burst

\* The handles setTimeout can return: any handle no pending timer has.
TimerIds == 1..MaxTimers
DisplayNames == {"a", "b"}
ActiveIds(ts) == {t.id : t \in ts}
Min(a, b) == IF a < b THEN a ELSE b

\* Timeout::new(QUERY_DEBOUNCE_MS, || send_message(Msg::Save { display_name })).
NewTimeout(id, display_name) ==
  [id |-> id, remaining |-> DebounceTicks, display_name |-> display_name]
\* clearTimeout(handle): a handle of no pending timer clears nothing.
ClearTimeout(handle) == {t \in timeouts : t.id # handle}

\* What the edit does to the record of bursts: an edit handled
\* QUERY_DEBOUNCE_MS or more after the one before opens a new burst.
EditRecorded ==
  /\ elapsed' = 0
  /\ IF elapsed >= DebounceTicks
     THEN /\ burstEdits' = 1
          /\ burstSaves' = 0
          /\ closedBurstSaves' = IF burstEdits > 0 THEN burstSaves
                                 ELSE closedBurstSaves
     ELSE /\ burstEdits' = Min(burstEdits + 1, MaxEdits)
          /\ UNCHANGED <<burstSaves, closedBurstSaves>>

\* Msg::UpdateDisplayName that sets the new timer and leaves the old one.
UpdateDisplayNameKeepsTimer(v, id) ==
  /\ id \notin ActiveIds(timeouts)
  /\ name_input' = v
  /\ timeouts' = timeouts \cup {NewTimeout(id, v)}
  /\ query_debounce' = id
  /\ EditRecorded
  /\ UNCHANGED <<saveMsgs, lens_name, lastSave, crawlVars, settingsVars, lensVars>>

\* oninput of the name input, which now holds v: Msg::UpdateDisplayName.
\* The input that sent the event is the node of _name_input_ref.
UpdateDisplayName(v, id) ==
  /\ id \notin ActiveIds(ClearTimeout(query_debounce))
  /\ name_input' = v
  /\ timeouts' = ClearTimeout(query_debounce) \cup {NewTimeout(id, v)}
  /\ query_debounce' = id
  /\ EditRecorded
  /\ UNCHANGED <<saveMsgs, lens_name, lastSave, crawlVars, settingsVars, lensVars>>

\* Time passes; a timer whose delay is over runs then or later.
Tick ==
  /\ elapsed' = Min(elapsed + 1, DebounceTicks)
  /\ timeouts' = {[t EXCEPT !.remaining = IF @ > 0 THEN @ - 1 ELSE 0] :
                    t \in timeouts}
  /\ UNCHANGED <<name_input, query_debounce, saveMsgs, lens_name, burstEdits,
                 burstSaves, closedBurstSaves, lastSave,
                 crawlVars, settingsVars, lensVars>>

\* The callback of a timer: link.send_message(Msg::Save { display_name });
\* _query_debounce keeps the handle.
TimeoutFires(t) ==
  /\ t.remaining = 0
  /\ Len(saveMsgs) < MaxMsgs
  /\ timeouts' = timeouts \ {t}
  /\ saveMsgs' = Append(saveMsgs, t.display_name)
  /\ burstSaves' = Min(burstSaves + 1, MaxSaves)
  /\ lastSave' = t.display_name
  /\ UNCHANGED <<name_input, query_debounce, lens_name, elapsed, burstEdits,
                 closedBurstSaves, crawlVars, settingsVars, lensVars>>

\* Msg::Save { display_name }: api.lens_update(..), Ok or Err; the reload
\* that follows Ok is left out.
Save(ok) ==
  /\ saveMsgs # <<>>
  /\ saveMsgs' = Tail(saveMsgs)
  /\ lens_name' = IF ok THEN Head(saveMsgs) ELSE lens_name
  /\ UNCHANGED <<name_input, query_debounce, timeouts, elapsed, burstEdits,
                 burstSaves, closedBurstSaves, lastSave,
                 crawlVars, settingsVars, lensVars>>

NextDebounce ==
  \/ \E v \in DisplayNames, id \in TimerIds : UpdateDisplayName(v, id)
  \/ Tick
  \/ \E t \in timeouts : TimeoutFires(t)
  \/ \E ok \in BOOLEAN : Save(ok)

\* ------------------------------------------------------------- helpers
Ids == 1..Len(queue)
Processing == {i \in Ids : queue[i].status = "Processing"}
ProcessingIn(d) == {i \in Processing : Domain(queue[i].url) = d}
ManagerExited == mpc \in {"done", "panicked"}
WorkerExited == wpc \in {"done", "panicked"}

NoResult == [kind |-> "none", links |-> <<>>, content |-> FALSE]
NoRow == [id |-> 0, url |-> NoUrl, doc_id |-> NoDoc]

\* The link lists a page may carry: up to n urls of S, repeats included.
RECURSIVE SeqsUpTo(_, _)
SeqsUpTo(S, n) ==
  IF n = 0 THEN {<<>>}
  ELSE LET shorter == SeqsUpTo(S, n - 1)
       IN shorter \cup {Append(s, x) : s \in {t \in shorter : Len(t) = n - 1}, x \in S}

\* crawl_queue::dequeue: the oldest Queued row whose domain has fewer than
\* `lim` rows in Processing, or NoTask.
Eligible(lim) ==
  {i \in Ids : /\ queue[i].status = "Queued"
               /\ Cardinality(ProcessingIn(Domain(queue[i].url))) < lim}
Dequeue(lim) ==
  IF Eligible(lim) = {} THEN NoTask
  ELSE CHOOSE i \in Eligible(lim) : \A j \in Eligible(lim) : i <= j

\* crawl_queue::enqueue: insert a Queued row for the normalized url unless a
\* row for the same url exists in a non-Failed state.
Enqueue(q, link) ==
  IF \E i \in 1..Len(q) : /\ Normalize(q[i].url) = Normalize(link)
                          /\ q[i].status # "Failed"
  THEN q
  ELSE Append(q, [url |-> Normalize(link), status |-> "Queued"])

\* crawl_queue::mark_done: the row leaves Processing for Completed.
MarkDone(q, id) ==
  IF q[id].status = "Processing" THEN [q EXCEPT ![id].status = "Completed"] ELSE q

\* ---------------------------------------------------------------- Init
Init ==
  /\ queue = <<>>
  /\ docs = {}
  /\ index = {}
  /\ nextDoc = 1
  /\ poisoned = FALSE
  /\ paused = FALSE
  /\ shutdown = FALSE
  /\ chan = <<>>
  /\ mpc = "select" /\ mtask = NoTask
  /\ wpc = "loop" /\ wtask = NoTask
  /\ wres = NoResult /\ wexisting = NoRow /\ wdoc = NoDoc
  /\ sent = [i \in 1..MaxRows |-> 0]
  /\ fetched = [i \in 1..MaxRows |-> 0]
  /\ linkRows = {}
  /\ toggles = 0
  /\ resp = "none"
  /\ settings = DefaultSettings
  /\ saveRequest = NoRequest
  /\ saveResult = [ok |-> TRUE, errors |-> {}]
  /\ appRestarted = FALSE
  /\ processing_action = "None"
  /\ add_url_error = "None"
  /\ pageMsgs = <<>>
  /\ pageTasks = <<>>
  /\ name_input = "lens"
  /\ query_debounce = 0
  /\ timeouts = {}
  /\ saveMsgs = <<>>
  /\ lens_name = "lens"
  /\ elapsed = DebounceTicks
  /\ burstEdits = 0
  /\ burstSaves = 0
  /\ closedBurstSaves = -1
  /\ lastSave = "none"

\* ------------------------------------------------------- manager_task
\* select!: the dequeue branch completes.
ManagerDequeue ==
  /\ mpc = "select"
  /\ mtask' = Dequeue(DomainCrawlLimit)
  /\ mpc' = IF Dequeue(DomainCrawlLimit) = NoTask THEN "sleep" ELSE "mark"
  /\ UNCHANGED <<storeVars, paused, shutdown, chan, wrkVars, histVars, resp, sideVars>>

\* select!: dequeue returned Err and `res.unwrap()` panics.
ManagerDequeueFail ==
  /\ mpc = "select"
  /\ mpc' = "panicked"
  /\ UNCHANGED <<storeVars, paused, shutdown, chan, mtask, wrkVars, histVars, resp, sideVars>>

\* select!: the shutdown branch completes.
ManagerShutdown ==
  /\ mpc = "select"
  /\ shutdown
  /\ mpc' = "done"
  /\ UNCHANGED <<storeVars, paused, shutdown, chan, mtask, wrkVars, histVars, resp, sideVars>>

\* The update leaves the status column out: the row stays Queued.
ManagerMarkKeepsQueued ==
  /\ mpc = "mark"
  /\ mpc' = "send"
  /\ UNCHANGED <<storeVars, paused, shutdown, chan, mtask, wrkVars, histVars, resp, sideVars>>

\* update.status = Set(Processing); update.update(db)
ManagerMark ==
  /\ mpc = "mark"
  /\ queue' = [queue EXCEPT ![mtask].status = "Processing"]
  /\ mpc' = "send"
  /\ UNCHANGED <<docs, index, nextDoc, poisoned, paused, shutdown, chan,
                 mtask, wrkVars, histVars, resp, sideVars>>

ManagerMarkFail ==
  /\ mpc = "mark"
  /\ mpc' = "panicked"
  /\ UNCHANGED <<storeVars, paused, shutdown, chan, mtask, wrkVars, histVars, resp, sideVars>>

\* The send on a channel without a capacity: it never suspends.
ManagerSendUnbounded ==
  /\ mpc = "send"
  /\ IF WorkerExited
     THEN /\ mpc' = "done"
          /\ UNCHANGED <<chan, sent>>
     ELSE /\ chan' = Append(chan, mtask)
          /\ sent' = [sent EXCEPT ![mtask] = @ + 1]
          /\ mpc' = "sleep"
  /\ mtask' = NoTask
  /\ UNCHANGED <<storeVars, paused, shutdown, wrkVars, fetched, linkRows, toggles, resp, sideVars>>

\* queue.send(cmd).await: suspends while the channel is full, fails once the
\* receiver is gone.
ManagerSend ==
  /\ mpc = "send"
  /\ IF WorkerExited
     THEN /\ mpc' = "done"
          /\ UNCHANGED <<chan, sent>>
     ELSE /\ Len(chan) < ChanCap
          /\ chan' = Append(chan, mtask)
          /\ sent' = [sent EXCEPT ![mtask] = @ + 1]
          /\ mpc' = "sleep"
  /\ mtask' = NoTask
  /\ UNCHANGED <<storeVars, paused, shutdown, wrkVars, fetched, linkRows, toggles, resp, sideVars>>

\* tokio::time::sleep(1s).await
ManagerSleep ==
  /\ mpc = "sleep"
  /\ mpc' = "select"
  /\ UNCHANGED <<storeVars, paused, shutdown, chan, mtask, wrkVars, histVars, resp, sideVars>>

Manager ==
  \/ ManagerDequeue \/ ManagerDequeueFail \/ ManagerShutdown
  \/ ManagerMark \/ ManagerMarkFail \/ ManagerSend \/ ManagerSleep


\* -------------------------------------------------------- worker_task
\* The url of the crawl result: the url of the fetched row, parsed.
wurl == IF wtask = NoTask THEN NoUrl ELSE Normalize(queue[wtask].url)

WorkerReset ==
  /\ wtask' = NoTask
  /\ wres' = NoResult
  /\ wexisting' = NoRow
  /\ wdoc' = NoDoc

WorkerPanic ==
  /\ wpc' = "panicked"
  /\ WorkerReset

\* The pause check with the test of the flag left out.
WorkerCheckIgnoresPause ==
  /\ wpc = "loop"
  /\ wpc' = "recv"
  /\ UNCHANGED <<storeVars, paused, shutdown, chan, mgrVars,
                 wtask, wres, wexisting, wdoc, histVars, resp, sideVars>>

\* if app_state["paused"] == "true" { select! {...} }
WorkerCheckPause ==
  /\ wpc = "loop"
  /\ wpc' = IF paused THEN "pause_sleep" ELSE "recv"
  /\ UNCHANGED <<storeVars, paused, shutdown, chan, mgrVars,
                 wtask, wres, wexisting, wdoc, histVars, resp, sideVars>>

\* paused select!: the one second sleep completes, `continue`.
WorkerPauseSleep ==
  /\ wpc = "pause_sleep"
  /\ wpc' = "loop"
  /\ UNCHANGED <<storeVars, paused, shutdown, chan, mgrVars,
                 wtask, wres, wexisting, wdoc, histVars, resp, sideVars>>

\* The paused select! has no shutdown branch: the worker sleeps and goes round.
WorkerPauseIgnoresShutdown ==
  /\ wpc = "pause_sleep"
  /\ shutdown
  /\ wpc' = "loop"
  /\ UNCHANGED <<storeVars, paused, shutdown, chan, mgrVars,
                 wtask, wres, wexisting, wdoc, histVars, resp, sideVars>>

\* paused select!: the shutdown branch completes.
WorkerPauseShutdown ==
  /\ wpc = "pause_sleep"
  /\ shutdown
  /\ wpc' = "done"
  /\ UNCHANGED <<storeVars, paused, shutdown, chan, mgrVars,
                 wtask, wres, wexisting, wdoc, histVars, resp, sideVars>>

\* The task marked done as it is taken from the channel, before its fetch.
WorkerRecvMarksDone ==
  /\ wpc = "recv"
  /\ chan # <<>>
  /\ wtask' = Head(chan)
  /\ chan' = Tail(chan)
  /\ queue' = MarkDone(queue, Head(chan))
  /\ wpc' = "fetch"
  /\ linkRows' = {}
  /\ UNCHANGED <<docs, index, nextDoc, poisoned, paused, shutdown, mgrVars,
                 wres, wexisting, wdoc, sent, fetched, toggles, resp, sideVars>>

\* select!: queue.recv() yields Some(Command::Fetch(crawl)).
WorkerRecv ==
  /\ wpc = "recv"
  /\ chan # <<>>
  /\ wtask' = Head(chan)
  /\ chan' = Tail(chan)
  /\ wpc' = "fetch"
  /\ linkRows' = {}
  /\ UNCHANGED <<storeVars, paused, shutdown, mgrVars,
                 wres, wexisting, wdoc, sent, fetched, toggles, resp, sideVars>>

\* select!: queue.recv() yields None, the sender is dropped and the channel
\* is empty; the loop goes round.
WorkerRecvClosed ==
  /\ wpc = "recv"
  /\ chan = <<>>
  /\ ManagerExited
  /\ wpc' = "loop"
  /\ UNCHANGED <<storeVars, paused, shutdown, chan, mgrVars,
                 wtask, wres, wexisting, wdoc, histVars, resp, sideVars>>

\* select!: the shutdown branch completes.
WorkerRecvShutdown ==
  /\ wpc = "recv"
  /\ shutdown
  /\ wpc' = "done"
  /\ UNCHANGED <<storeVars, paused, shutdown, chan, mgrVars,
                 wtask, wres, wexisting, wdoc, histVars, resp, sideVars>>

\* crawler.fetch_by_job(db, crawl.id): Err, Ok(None) or Ok(Some(result)).
FetchResults ==
  {[kind |-> "err", links |-> <<>>, content |-> FALSE],
   [kind |-> "none", links |-> <<>>, content |-> FALSE]}
  \cup {[kind |-> "some", links |-> l, content |-> c] :
          l \in SeqsUpTo(Urls, MaxLinks), c \in BOOLEAN}

WorkerFetch ==
  /\ wpc = "fetch"
  /\ \E r \in FetchResults :
       /\ Len(queue) + Len(r.links) <= MaxRows
       /\ r.content => nextDoc <= MaxDocs
       /\ wres' = r
  /\ fetched' = [fetched EXCEPT ![wtask] = @ + 1]
  /\ wpc' = "mark_done"
  /\ UNCHANGED <<storeVars, paused, shutdown, chan, mgrVars,
                 wtask, wexisting, wdoc, sent, linkRows, toggles, resp, sideVars>>

\* The position after the links loop: reconcile when there is content.
AfterLinks(r) == IF r.content THEN "lookup" ELSE "loop"
\* `match result` with the links and the document handled in every arm.
AfterMarkDoneAnyResult(r) ==
  IF r.links # <<>> THEN "links" ELSE "lookup"

\* The position after mark_done: `match result`.
AfterMarkDone(r) ==
  IF r.kind # "some" THEN "loop"
  ELSE IF r.links # <<>> THEN "links" ELSE AfterLinks(r)

\* mark_done called only in the arms of `match result` that hold a result.
WorkerMarkDoneUnlessFailed ==
  /\ wpc = "mark_done"
  /\ queue' = IF wres.kind = "err" THEN queue ELSE MarkDone(queue, wtask)
  /\ wpc' = AfterMarkDone(wres)
  /\ IF AfterMarkDone(wres) = "loop"
     THEN WorkerReset
     ELSE UNCHANGED <<wtask, wres, wexisting, wdoc>>
  /\ UNCHANGED <<docs, index, nextDoc, poisoned, paused, shutdown, chan,
                 mgrVars, histVars, resp, sideVars>>

\* The task put back in the queue after its fetch, to be tried again.
WorkerMarkDoneRequeues ==
  /\ wpc = "mark_done"
  /\ queue' = [queue EXCEPT ![wtask].status = "Queued"]
  /\ wpc' = AfterMarkDone(wres)
  /\ IF AfterMarkDone(wres) = "loop"
     THEN WorkerReset
     ELSE UNCHANGED <<wtask, wres, wexisting, wdoc>>
  /\ UNCHANGED <<docs, index, nextDoc, poisoned, paused, shutdown, chan,
                 mgrVars, histVars, resp, sideVars>>

\* crawl_queue::mark_done(db, crawl.id).await.unwrap(), then `match result`.
WorkerMarkDone ==
  /\ wpc = "mark_done"
  /\ queue' = MarkDone(queue, wtask)
  /\ wpc' = AfterMarkDone(wres)
  /\ IF AfterMarkDone(wres) = "loop"
     THEN WorkerReset
     ELSE UNCHANGED <<wtask, wres, wexisting, wdoc>>
  /\ UNCHANGED <<docs, index, nextDoc, poisoned, paused, shutdown, chan,
                 mgrVars, histVars, resp, sideVars>>

WorkerMarkDoneFail ==
  /\ wpc = "mark_done"
  /\ WorkerPanic
  /\ UNCHANGED <<storeVars, paused, shutdown, chan, mgrVars, histVars, resp, sideVars>>

\* The links loop with the enqueue call left out.
WorkerEnqueueLinkDropped ==
  /\ wpc = "links"
  /\ IF Len(wres.links) > 1
     THEN /\ wres' = [wres EXCEPT !.links = Tail(wres.links)]
          /\ wpc' = "links"
          /\ UNCHANGED <<wtask, wexisting, wdoc>>
     ELSE /\ wpc' = AfterLinks(wres)
          /\ IF AfterLinks(wres) = "loop"
             THEN WorkerReset
             ELSE /\ wres' = [wres EXCEPT !.links = <<>>]
                  /\ UNCHANGED <<wtask, wexisting, wdoc>>
  /\ UNCHANGED <<storeVars, paused, shutdown, chan, mgrVars, histVars, resp, sideVars>>

\* for link in links { crawl_queue::enqueue(db, link, settings).await.unwrap() }
WorkerEnqueueLink ==
  /\ wpc = "links"
  /\ queue' = Enqueue(queue, Head(wres.links))
  /\ IF Len(wres.links) > 1
     THEN /\ wres' = [wres EXCEPT !.links = Tail(wres.links)]
          /\ wpc' = "links"
          /\ UNCHANGED <<wtask, wexisting, wdoc>>
     ELSE /\ wpc' = AfterLinks(wres)
          /\ IF AfterLinks(wres) = "loop"
             THEN WorkerReset
             ELSE /\ wres' = [wres EXCEPT !.links = <<>>]
                  /\ UNCHANGED <<wtask, wexisting, wdoc>>
  /\ linkRows' = IF Len(queue') > Len(queue)
                 THEN linkRows \cup {Len(queue')} ELSE linkRows
  /\ UNCHANGED <<docs, index, nextDoc, poisoned, paused, shutdown, chan,
                 mgrVars, sent, fetched, toggles, resp, sideVars>>

WorkerEnqueueFail ==
  /\ wpc = "links"
  /\ WorkerPanic
  /\ UNCHANGED <<storeVars, paused, shutdown, chan, mgrVars, histVars, resp, sideVars>>

\* indexed_document::Entity::find().filter(Url.eq(url)).one(db)
FindOne(u) ==
  LET found == {r \in docs : r.url = u}
  IN IF found = {} THEN NoRow
     ELSE CHOOSE r \in found : \A o \in found : r.id <= o.id

WorkerLookup ==
  /\ wpc = "lookup"
  /\ wexisting' = FindOne(wurl)
  /\ wpc' = IF FindOne(wurl) = NoRow THEN "add" ELSE "delete"
  /\ UNCHANGED <<storeVars, paused, shutdown, chan, mgrVars,
                 wtask, wres, wdoc, histVars, resp, sideVars>>

WorkerLookupFail ==
  /\ wpc = "lookup"
  /\ WorkerPanic
  /\ UNCHANGED <<storeVars, paused, shutdown, chan, mgrVars, histVars, resp, sideVars>>

\* The delete is keyed on another identifier than the one the row stores.
IndexDeleteWrongKey(ix, id) == {e \in ix : e.doc_id # id + 1}

\* Searcher::delete(&mut index.writer, &doc.doc_id)
IndexDelete(ix, id) == {e \in ix : e.doc_id # id}

\* The old entry is left in the index.
WorkerDeleteKeepsEntry ==
  /\ wpc = "delete"
  /\ ~poisoned
  /\ wpc' = "add"
  /\ UNCHANGED <<storeVars, paused, shutdown, chan, mgrVars,
                 wtask, wres, wexisting, wdoc, histVars, resp, sideVars>>

\* if let Some(doc) = &existing { lock; Searcher::delete(..).unwrap() }
WorkerDelete ==
  /\ wpc = "delete"
  /\ ~poisoned
  /\ index' = IndexDelete(index, wexisting.doc_id)
  /\ wpc' = "add"
  /\ UNCHANGED <<queue, docs, nextDoc, poisoned, paused, shutdown, chan,
                 mgrVars, wtask, wres, wexisting, wdoc, histVars, resp, sideVars>>

\* lock().unwrap() on a poisoned mutex, or delete(..).unwrap() on Err while
\* the guard is held: the worker panics and the mutex is poisoned.
WorkerDeleteFail ==
  /\ wpc = "delete"
  /\ poisoned' = TRUE
  /\ WorkerPanic
  /\ UNCHANGED <<queue, docs, index, nextDoc, paused, shutdown, chan,
                 mgrVars, histVars, resp, sideVars>>

\* let doc_id = { lock; Searcher::add_document(..).unwrap() }
WorkerAdd ==
  /\ wpc = "add"
  /\ ~poisoned
  /\ index' = index \cup {[doc_id |-> nextDoc, url |-> wurl]}
  /\ wdoc' = nextDoc
  /\ nextDoc' = nextDoc + 1
  /\ wpc' = "save"
  /\ UNCHANGED <<queue, docs, poisoned, paused, shutdown, chan,
                 mgrVars, wtask, wres, wexisting, histVars, resp, sideVars>>

WorkerAddFail ==
  /\ wpc = "add"
  /\ poisoned' = TRUE
  /\ WorkerPanic
  /\ UNCHANGED <<queue, docs, index, nextDoc, paused, shutdown, chan,
                 mgrVars, histVars, resp, sideVars>>

\* indexed.save(db): update the row found, or insert a new row.
SaveDoc(ds, existing, u, id) ==
  IF existing # NoRow
  THEN {IF r.id = existing.id THEN [r EXCEPT !.doc_id = id] ELSE r : r \in ds}
  ELSE ds \cup {[id |-> Cardinality(ds) + 1, url |-> u, doc_id |-> id]}

WorkerSave ==
  /\ wpc = "save"
  /\ docs' = SaveDoc(docs, wexisting, wurl, wdoc)
  /\ wpc' = "loop"
  /\ WorkerReset
  /\ UNCHANGED <<queue, index, nextDoc, poisoned, paused, shutdown, chan,
                 mgrVars, histVars, resp, sideVars>>

WorkerSaveFail ==
  /\ wpc = "save"
  /\ WorkerPanic
  /\ UNCHANGED <<storeVars, paused, shutdown, chan, mgrVars, histVars, resp, sideVars>>

Worker ==
  \/ WorkerCheckPause \/ WorkerPauseSleep \/ WorkerPauseShutdown
  \/ WorkerRecv \/ WorkerRecvClosed \/ WorkerRecvShutdown
  \/ WorkerFetch \/ WorkerMarkDone \/ WorkerMarkDoneFail
  \/ WorkerEnqueueLink \/ WorkerEnqueueFail
  \/ WorkerLookup \/ WorkerLookupFail
  \/ WorkerDelete \/ WorkerDeleteFail
  \/ WorkerAdd \/ WorkerAddFail
  \/ WorkerSave \/ WorkerSaveFail

\* ------------------------------------------------------ api/route.rs
\* POST /queue: insert a row with the url as given.  force_crawl is a column
\* no code of the loops reads; the rows of the model leave it out and the
\* submissions are those with force_crawl = false.
AddQueue(u) ==
  /\ WellFormed(u)
  /\ Len(queue) + Len(wres.links) < MaxRows
  /\ queue' = Append(queue, [url |-> u, status |-> "Queued"])
  /\ resp' = "ok"
  /\ UNCHANGED <<docs, index, nextDoc, poisoned, paused, shutdown, chan,
                 mgrVars, wrkVars, histVars, sideVars>>

\* Url::parse(&queue_item.url).unwrap() panics on a string that does not
\* parse: the handler returns nothing and the server answers for it.
AddQueuePanic(u) ==
  /\ ~WellFormed(u)
  /\ resp' = "panic"
  /\ UNCHANGED <<storeVars, paused, shutdown, chan, mgrVars, wrkVars, histVars, sideVars>>

\* Err(err) of the insert: BadRequest with the error as its reason.
AddQueueInsertFail(u) ==
  /\ WellFormed(u)
  /\ resp' = "bad_request"
  /\ UNCHANGED <<storeVars, paused, shutdown, chan, mgrVars, wrkVars, histVars, sideVars>>

\* POST /queue with url u, whatever its outcome.
Submit(u) == AddQueue(u) \/ AddQueuePanic(u) \/ AddQueueInsertFail(u)

\* _get_current_status: the flag as it is read, and the size of the index
\* read under its lock; `lock().unwrap()` panics when the mutex is poisoned.
GetCurrentStatus ==
  IF poisoned THEN [panic |-> TRUE]
  ELSE [is_paused |-> paused, num_docs |-> Cardinality(index)]

\* POST /status taken as set_paused(toggle): the flag becomes the bool sent.
UpdateAppStatusSets(toggle) ==
  /\ paused' = toggle
  /\ toggles' = 1 - toggles
  /\ UNCHANGED <<storeVars, shutdown, chan, mgrVars, wrkVars,
                 sent, fetched, linkRows, resp, sideVars>>

\* POST /status with toggle_pause = Some(_): the flag is inverted.
UpdateAppStatus(toggle) ==
  /\ paused' = ~paused
  /\ toggles' = 1 - toggles
  /\ UNCHANGED <<storeVars, shutdown, chan, mgrVars, wrkVars,
                 sent, fetched, linkRows, resp, sideVars>>

\* POST /search: under the index lock, the urls of the live entries; the
\* handler panics on `lock().unwrap()` when the mutex is poisoned.
SearchHits == IF poisoned THEN {} ELSE {e.url : e \in index}

\* The url whose index entry the worker is replacing: the old entry is found
\* and the new one is not yet added.
Updating ==
  IF wpc \in {"delete", "add"} /\ wexisting # NoRow THEN wurl ELSE NoUrl

\* AppShutdown::Now is broadcast to every receiver.
Shutdown ==
  /\ ~shutdown
  /\ shutdown' = TRUE
  /\ UNCHANGED <<storeVars, paused, chan, mgrVars, wrkVars, histVars, resp, sideVars>>

Environment ==
  \/ \E u \in RawUrls : AddQueue(u)
  \/ \E t \in BOOLEAN : UpdateAppStatus(t)
  \/ Shutdown

Next == Manager \/ Worker \/ Environment

Spec == Init /\ [][Next]_vars

TypeOK ==
  /\ Len(queue) <= MaxRows
  /\ Len(chan) <= ChanCap
  /\ nextDoc <= MaxDocs + 1


\* The scheduling the runtime gives the loops: every loop that can take a
\* step takes one, and a select! whose shutdown branch is ready again and
\* again takes that branch in the end (its branches are polled in random
\* order).
ShutdownBranch == ManagerShutdown \/ WorkerPauseShutdown \/ WorkerRecvShutdown
Fairness ==
  /\ WF_vars(Manager)
  /\ WF_vars(Worker)
  /\ SF_vars(ShutdownBranch)

FairSpec == Spec /\ Fairness

\* The process is started again once both loops have ended: the tables and
\* the index are durable, the channel, the pause flag, the shutdown signal
\* and the index mutex are new.
Restart ==
  /\ ManagerExited
  /\ WorkerExited
  /\ mpc' = "select" /\ mtask' = NoTask
  /\ wpc' = "loop" /\ WorkerReset
  /\ chan' = <<>>
  /\ paused' = FALSE
  /\ shutdown' = FALSE
  /\ poisoned' = FALSE
  /\ toggles' = 0
  /\ UNCHANGED <<queue, docs, index, nextDoc, sent, fetched, linkRows, resp, sideVars>>

NextRestart == Next \/ Restart

SpecRestart == Init /\ [][NextRestart]_vars

\* The system with every submission POST /queue can get: also a url outside
\* the crawl boundaries, a string that is no url, and a failing insert.
AnySubmission ==
  \/ AddQueue(DisallowedUrl)
  \/ AddQueuePanic(MalformedUrl)
  \/ \E u \in RawUrls \cup {DisallowedUrl} : AddQueueInsertFail(u)

NextApi == Next \/ AnySubmission

SpecApi == Init /\ [][NextApi]_vars

\* The settings command of the desktop app, on its own.
SpecSettings == Init /\ [][NextSettings]_vars

\* The lens edit page of the web app, on its own.
SpecLens == Init /\ [][NextLens]_vars

\* The display-name input of the lens edit page and its timer.
SpecDebounce == Init /\ [][NextDebounce]_vars

\* ------------------------------------------------------------ properties
NoDuplicates(s) == \A i, j \in 1..Len(s) : s[i] = s[j] => i = j
EntriesOf(ix, u) == {e \in ix : e.url = u}
RowsOf(ds, u) == {r \in ds : r.url = u}

\* C1: in every reachable state the Processing rows of one domain number at
\* most the per-domain limit, and the Processing rows altogether number at
\* most the global limit.
DomainLimitRespected ==
  \A d \in Domains : Cardinality(ProcessingIn(d)) <= DomainCrawlLimit
InflightLimitsRespected ==
  /\ DomainLimitRespected
  /\ Cardinality(Processing) <= InflightCrawlLimit

Reconciled(u, ix, ds, p) ==
  /\ Cardinality(EntriesOf(ix, u)) = 1
  /\ RowsOf(ds, u) # {}
  /\ \A r \in RowsOf(ds, u) : \E e \in EntriesOf(ix, u) : e.doc_id = r.doc_id
  /\ ~p
SearchSeesOldOrNew == Updating # NoUrl => Updating \in SearchHits

\* C7: a reconcile that completes, also one that follows an attempt which
\* stopped part-way, leaves exactly one live index entry and exactly one row
\* for the url, and no index entry that no row references.
NoOrphans(ix, ds) == \A e \in ix : \E r \in ds : r.doc_id = e.doc_id
Converged(u, ix, ds) ==
  /\ Cardinality(EntriesOf(ix, u)) = 1
  /\ Cardinality(RowsOf(ds, u)) = 1
  /\ NoOrphans(EntriesOf(ix, u), ds)
ReconcileConverges ==
  [][(wpc = "save" /\ wpc' = "loop") => Converged(wurl, index', docs')]_vars

\* C8: at most one row in Queued or Processing status exists for a url.
ActiveRows(u) ==
  {i \in Ids : /\ Normalize(queue[i].url) = u
               /\ queue[i].status \in {"Queued", "Processing"}}
OneActiveRowPerUrl == \A u \in Urls : Cardinality(ActiveRows(u)) <= 1

\* C9: once the manager and the worker have returned on the shutdown signal,
\* no row is left in Processing.
NoTaskStrandedAfterShutdown ==
  (shutdown /\ mpc = "done" /\ wpc = "done") => Processing = {}

\* C10: after the shutdown signal is broadcast, the manager loop and the
\* worker loop both end, and every suspension point of a loop is raced
\* against the signal: a suspended loop with the signal pending can return.
ManagerSuspended ==
  \/ mpc \in {"select", "sleep"}
  \/ mpc = "send" /\ ~WorkerExited /\ Len(chan) >= ChanCap
WorkerSuspended == wpc \in {"pause_sleep", "recv"}
MovedToProcessing ==
  \E i \in Ids : queue[i].status = "Queued" /\ queue'[i].status = "Processing"
\* A step in which the worker takes a task from the channel.
TookFromChannel == wpc = "recv" /\ wpc' = "fetch"

\* C11: once the shutdown signal is broadcast, no row moves from Queued to
\* Processing and the worker takes no task from the channel.
NoNewWorkAfterShutdown ==
  [][shutdown => (~MovedToProcessing /\ ~TookFromChannel)]_vars

\* C12: while the pause flag is set, no row moves from Queued to Processing.
NoDispatchWhilePaused == [][paused => ~MovedToProcessing]_vars

\* C13: while the pause flag is set, the worker takes no task from the
\* channel, however the toggle interleaves with the pause check and the
\* receive.
NoReceiveWhilePaused == [][paused => ~TookFromChannel]_vars
\* C13, amended: a worker that is at its pause check, or idling after it
\* read the flag as set, takes no task while the flag is set: it stays idle
\* or returns on shutdown, and the channel loses nothing.
WorkerIdle == wpc \in {"loop", "pause_sleep"}
PausedWorkerIdles ==
  [][(paused /\ WorkerIdle) =>
       (wpc' \in {"loop", "pause_sleep", "done"} /\ Len(chan') >= Len(chan))]_vars
TaskWaitsForPausedWorker ==
  /\ paused
  /\ wpc = "pause_sleep"
  /\ chan # <<>>
  /\ mpc = "send"

\* The row of task i is no longer Processing.
LeftProcessing(i) == i \in Ids /\ queue[i].status # "Processing"
Fetching(i) == wtask = i /\ wpc = "fetch"

FailedFetchMarkedFailed ==
  [][(wpc = "mark_done" /\ wres.kind = "err" /\ wpc' = "loop") =>
       queue'[wtask].status = "Failed"]_vars

\* The positions of the worker inside reconcile, and those of the loops at a
\* call of the crawl queue store.
InReconcile == wpc \in {"lookup", "delete", "add", "save"}
ManagerAtStoreCall == mpc \in {"select", "mark"}
WorkerAtStoreCall == wpc \in {"mark_done", "links"}

\* C16: when a step of reconcile fails (the lookup, the index delete, the
\* index insert or the save), the worker keeps running.
ReconcileFailureKeepsWorker == [][InReconcile => wpc' # "panicked"]_vars

\* C17: a failed store call (dequeue, the update to Processing, mark_done,
\* the enqueue of a link) ends neither the manager loop nor the worker loop.
StoreFailureKeepsLoops ==
  [][/\ ManagerAtStoreCall => mpc' # "panicked"
     /\ WorkerAtStoreCall => wpc' # "panicked"]_vars

\* A row for url u is present in queue q.
HasRow(q, u) == \E i \in 1..Len(q) : Normalize(q[i].url) = u
\* A step that enqueues a link: a Queued row is appended for a link that has
\* no row, and nothing changes for a link that has one.
LinkStep == wpc = "links" /\ wpc' # "panicked" /\ <<wpc, wres>>' # <<wpc, wres>>
LinkStepInserts ==
  LinkStep =>
    LET l == Head(wres.links) IN
      IF HasRow(queue, l)
      THEN queue' = queue /\ linkRows' = linkRows
      ELSE /\ queue' = Append(queue, [url |-> l, status |-> "Queued"])
           /\ linkRows' = linkRows \cup {Len(queue')}
\* The step that ends the processing of a task with content.
WorkerFinished == wpc = "save" /\ wpc' = "loop"
TaskDoneOneRow ==
  /\ queue'[wtask].status = "Completed"
  /\ Cardinality(RowsOf(docs', wurl)) = 1

\* C18: after the worker has processed a task whose fetch returned content
\* and links, the queue holds a Queued row for every returned link that
\* was not already present, the row of the task is Completed and exactly one
\* indexed_document row exists for its url.
ProcessedTaskLeavesLinksQueued ==
  [][/\ LinkStepInserts
     /\ WorkerFinished =>
          /\ TaskDoneOneRow
          /\ \A i \in linkRows : queue'[i].status = "Queued"]_vars
\* C18, amended: the rows inserted for the links are in the queue, Queued
\* when inserted and possibly dispatched by the manager since.
ProcessedTaskLeavesLinksEnqueued ==
  [][/\ LinkStepInserts
     /\ WorkerFinished =>
          /\ TaskDoneOneRow
          /\ \A i \in linkRows :
               /\ i \in 1..Len(queue')
               /\ queue'[i].status \in {"Queued", "Processing", "Completed"}]_vars
LinksEnqueuedAndIndexed ==
  /\ wpc = "loop"
  /\ linkRows # {}
  /\ \E i \in Ids :
       /\ fetched[i] = 1
       /\ queue[i].status = "Completed"
       /\ Cardinality(RowsOf(docs, Normalize(queue[i].url))) = 1

\* C19: a submission with a malformed url or a url on a disallowed domain is
\* rejected: no row enters the queue and the caller gets an error response
\* that states the reason.
InvalidSubmissionRejected ==
  [][\A u \in {MalformedUrl, DisallowedUrl} :
       Submit(u) => (queue' = queue /\ resp' = "bad_request")]_vars

\* C20: after POST /status with toggle_pause = Some(b) the pause flag equals
\* b, for either b and whatever the flag was before.
SetPausedSetsFlag ==
  [][\A b \in BOOLEAN : UpdateAppStatus(b) => paused' = b]_vars
\* C20, amended: every such request inverts the flag, whatever b is: the
\* flag is set exactly after an odd number of requests, and the status the
\* handler returns reports the flag as it then is.
PauseFlagIsToggleParity ==
  /\ paused = (toggles = 1)
  /\ ~poisoned => GetCurrentStatus.is_paused = (toggles = 1)
WorkerReadToggledFlag ==
  /\ toggles = 1
  /\ paused
  /\ wpc = "pause_sleep"
  /\ GetCurrentStatus.is_paused

\* The change of status of row i in a step, if any, is one the manager makes
\* at dispatch or one the worker makes after the fetch of the task it holds.
StatusStep(i) ==
  \/ queue'[i].status = queue[i].status
  \/ /\ queue[i].status = "Queued"
     /\ queue'[i].status = "Processing"
     /\ mpc = "mark" /\ mtask = i /\ mpc' = "send"
  \/ /\ queue[i].status = "Processing"
     /\ queue'[i].status \in {"Completed", "Failed"}
     /\ wpc = "mark_done" /\ wtask = i

\* C22: the status of a row changes only from Queued to Processing, by the
\* manager at dispatch, and from Processing to Completed or Failed, by the
\* worker after the fetch; no row is deleted or given another url.
StatusOnlyMovesForward ==
  [][/\ Len(queue') >= Len(queue)
     /\ \A i \in Ids : queue'[i].url = queue[i].url /\ StatusStep(i)]_vars
TaskWentThroughEveryStatus ==
  \E i \in Ids :
    /\ sent[i] = 1
    /\ fetched[i] = 1
    /\ queue[i].status = "Completed"
    /\ Len(queue) = MaxRows

\* The Queued rows whose domain is below the per-domain limit while the
\* total of Processing rows is below the global limit, and the oldest of them.
EligibleUnderBothLimits ==
  {i \in Ids : /\ queue[i].status = "Queued"
               /\ Cardinality(ProcessingIn(Domain(queue[i].url))) < DomainCrawlLimit
               /\ Cardinality(Processing) < InflightCrawlLimit}
OldestUnderBothLimits ==
  IF EligibleUnderBothLimits = {} THEN NoTask
  ELSE CHOOSE i \in EligibleUnderBothLimits :
         \A j \in EligibleUnderBothLimits : i <= j

\* C23: a dequeue of the manager returns the oldest Queued task that is under
\* the per-domain limit and under the global limit, and None exactly when
\* there is no such task.
DequeueReturnsOldestUnderBothLimits ==
  [][(mpc = "select" /\ mpc' \in {"mark", "sleep"}) =>
       mtask' = OldestUnderBothLimits]_vars

\* C24: the worker enqueues the links and reconciles the document before it
\* marks the task complete: the task it is still enqueuing links for or
\* reconciling is not Completed.
NotCompletedBeforeProcessed ==
  (wtask # NoTask /\ (wpc = "links" \/ InReconcile)) =>
    queue[wtask].status # "Completed"

\* The worker is between the lookup and the save of a reconcile for url u.
Reconciling(u) == InReconcile /\ wurl = u
\* The index entry row r refers to is live and is an entry for its url.
RefersToLiveEntry(r) == \E e \in index : e.doc_id = r.doc_id /\ e.url = r.url

\* C25: at most one indexed_document row exists per url, and while no
\* reconcile for the url is in progress the doc_id of the row refers to a
\* live index entry for that url.
OneRowPerUrlReferringToLiveEntry ==
  \A u \in Urls :
    /\ Cardinality(RowsOf(docs, u)) <= 1
    /\ ~Reconciling(u) => \A r \in RowsOf(docs, u) : RefersToLiveEntry(r)

\* The tasks in the channel, and the rows moved to Processing that no worker
\* has received yet.
InChannel == {chan[k] : k \in 1..Len(chan)}
Undelivered == {i \in Processing : fetched[i] = 0 /\ wtask # i}
\* A dequeue of the manager that takes a task from the queue.
DequeuedTask == mpc = "select" /\ mpc' = "mark"

\* C26: the channel never holds more tasks than its capacity, and once it is
\* full the manager dequeues no further task until the worker has received
\* one.
NoDequeueWhileChannelFull ==
  [][/\ Len(chan') <= ChanCap
     /\ Len(chan) >= ChanCap => ~DequeuedTask]_vars
\* C26, amended: with the channel full the manager dequeues one more task,
\* the one it then blocks sending: every undelivered Processing row is in
\* the channel or is that task (or the task of the send that failed when
\* the worker had gone), so there are at most capacity plus one of them.
BackpressureBoundsDispatch ==
  /\ Len(chan) <= ChanCap
  /\ \A i \in Undelivered :
       \/ i \in InChannel
       \/ mpc = "send" /\ mtask = i
       \/ mpc = "done" /\ WorkerExited
  /\ Cardinality(Undelivered) <= ChanCap + 1
ManagerBlockedOnFullChannel ==
  /\ paused
  /\ Len(chan) = ChanCap
  /\ mpc = "send"
  /\ mtask \notin InChannel
  /\ Cardinality(Undelivered) = ChanCap + 1

\* The task the worker has received and not yet marked done.
BeingFetched == IF wpc \in {"fetch", "mark_done"} THEN {wtask} ELSE {}

\* C28: every task that waits in the channel or is being fetched by the
\* worker is Processing in the queue.
DispatchedTasksAreProcessing ==
  \A i \in InChannel \cup BeingFetched : i \in Ids /\ queue[i].status = "Processing"
OneTaskWaitsWhileOneIsFetched ==
  /\ wpc = "fetch"
  /\ chan # <<>>
  /\ wtask \notin InChannel

\* A step of the worker on the task it holds.
WorkerStep == <<wpc, wres>>' # <<wpc, wres>>
\* The step changes nothing of the queue but the status of the worker's task.
OnlyTaskStatusChanged ==
  /\ Len(queue') = Len(queue)
  /\ \A i \in Ids : queue'[i].url = queue[i].url
  /\ \A i \in Ids \ {wtask} : queue'[i] = queue[i]

\* C29: for a fetch that failed or returned no result the worker changes
\* only the status of the task; it enqueues links only for a fetch with a
\* result; and the index and indexed_document change only in the reconcile
\* of a result with content.
FailedFetchChangesOnlyStatus ==
  [][/\ (wpc = "mark_done" /\ wres.kind # "some" /\ WorkerStep) =>
          (OnlyTaskStatusChanged /\ wpc' \in {"loop", "panicked"})
     /\ (WorkerStep /\ Len(queue') > Len(queue)) =>
          (wpc = "links" /\ wres.kind = "some")
     /\ (index' # index \/ docs' # docs) =>
          (InReconcile /\ wres.kind = "some" /\ wres.content)]_vars
LinksEnqueuedNothingIndexed ==
  /\ wpc = "loop"
  /\ linkRows # {}
  /\ nextDoc = 1
  /\ index = {}
  /\ docs = {}

\* The outcome the all-or-nothing rule gives a request on settings cur.
Accepted(req) == ErrorsOf(req) = {} /\ UpdatedFields(req) # {}
SettingsStep == settingsVars' # settingsVars

\* C27: the settings are persisted and the app restarted if and only if no
\* field of the request failed validation and at least one was updated;
\* otherwise the command returns an error and the settings are unchanged.
SaveIsAllOrNothing ==
  [][SettingsStep =>
       IF Accepted(saveRequest')
       THEN /\ settings' = CurrentSettings(settings, saveRequest')
            /\ saveResult'.ok /\ appRestarted'
       ELSE /\ settings' = settings
            /\ ~saveResult'.ok /\ ~appRestarted']_vars
\* C27, amended: for an accepted request the save is attempted and its own
\* failure ignored: the settings are then either all written or unchanged,
\* and the command restarts the app and returns Ok in both cases.
SaveIsAllOrNothingWhenWritten ==
  [][SettingsStep =>
       IF Accepted(saveRequest')
       THEN /\ settings' \in {CurrentSettings(settings, saveRequest'), settings}
            /\ saveResult'.ok /\ appRestarted'
       ELSE /\ settings' = settings
            /\ ~saveResult'.ok /\ ~appRestarted'
            /\ saveResult'.errors = ErrorsOf(saveRequest')]_vars
ValidFieldRejectedWithInvalidOne ==
  /\ ~saveResult.ok
  /\ UpdatedFields(saveRequest) # {}
  /\ ErrorsOf(saveRequest) # {}
  /\ settings # CurrentSettings(settings, saveRequest)

\* C30: every action that sets processing_action to Some is followed by its
\* reset to None: once no request of the page is in flight and no message
\* waits, processing_action is None and the add-url buttons are enabled.
PageQuiescent == pageTasks = <<>> /\ pageMsgs = <<>>
QuiescentPageIsIdle == PageQuiescent => processing_action = "None"

\* The parts of the display-name debounce that both readings of C31 share:
\* at most one timer is pending and it is the one the last edit set, a burst
\* sends no Msg::Save before QUERY_DEBOUNCE_MS have passed since its last
\* edit, and the Msg::Save it sends carries the value of its last edit.
OneTimerPending ==
  /\ Cardinality(timeouts) <= 1
  /\ \A t \in timeouts : t.id = query_debounce /\ t.display_name = name_input
SaveIsOfLastEdit ==
  /\ burstSaves <= 1
  /\ burstSaves = 1 => lastSave = name_input /\ elapsed >= DebounceTicks

\* C31 (as stated): display-name edits are debounced: at most one save timer
\* is pending, each UpdateDisplayName cancels the timer pending before it,
\* and every burst of edits with gaps shorter than the debounce interval
\* has produced exactly one Msg::Save, with the value of its last edit, when
\* the next burst begins.
EveryBurstProducesOneSave ==
  /\ OneTimerPending
  /\ SaveIsOfLastEdit
  /\ closedBurstSaves \in {-1, 1}

\* C31 (amended): at most one save timer is pending, each UpdateDisplayName
\* cancels the timer pending before it, and a burst produces one Msg::Save
\* with the value of its last edit when its timer runs, and none when an
\* edit is handled before the timer has run.
BurstSavedWhenTimerRuns ==
  /\ OneTimerPending
  /\ SaveIsOfLastEdit
  /\ closedBurstSaves <= 1
  /\ timeouts # {} => burstSaves = 0
  /\ burstEdits > 0 /\ timeouts = {} => burstSaves = 1

\* A burst of two edits has produced its one Msg::Save, after an earlier
\* burst did.
BurstOfTwoEditsSavedOnce ==
  /\ burstEdits >= 2
  /\ burstSaves = 1
  /\ closedBurstSaves = 1
  /\ lastSave = name_input

====
